---- MODULE Spec2Model ----
(***************************************************************************)
(* Model of the "get-contract-source" tool handler of the Monad MCP        *)
(* server (src/unnamed/part_000, lines 521-768).                           *)
(*                                                                         *)
(* The handler is one async function.  Every action below is the code that *)
(* runs between two awaits: it consumes the answer of the collaborator     *)
(* call the handler is suspended on, runs the synchronous code after it    *)
(* and issues the next collaborator call(s).  The collaborators (the       *)
(* Monadscan registry over HTTP, the chain reads of the viem public        *)
(* client) are the environment: the answer of a call is drawn when the     *)
(* call is issued and remembered in world, so a second analysis of the     *)
(* same chain state is answered identically.                               *)
(*                                                                         *)
(* Text is modelled as a sequence of string tokens; numbers that the code  *)
(* formats (wei amounts, sizes) are sequences of decimal digit characters. *)
(***************************************************************************)
EXTENDS Integers, Sequences, FiniteSets, TLC

\* Largest deployed code, in bytes, the chain answers with.
MaxCodeBytes == 2

\* The analyses in flight: the handler may be entered again while an earlier
\* call is suspended on an await.
Requests == {1, 2}

-----------------------------------------------------------------------------
(* Strings and numbers *)

Digit == <<"0", "1", "2", "3", "4", "5", "6", "7", "8", "9">>

\* n zeros, none for n <= 0.
Zeros(n) == [i \in 1..(IF n > 0 THEN n ELSE 0) |-> "0"]

\* Number.prototype.toString for a non-negative integer.
RECURSIVE ToDigits(_)
ToDigits(n) ==
    IF n < 10 THEN <<Digit[n + 1]>>
    ELSE ToDigits(n \div 10) \o <<Digit[(n % 10) + 1]>>

\* String.prototype.padStart(n, "0")
PadStart(s, n) == Zeros(n - Len(s)) \o s

\* String.prototype.replace(/(0+)$/, "")
StripTrailingZeros(s) ==
    LET kept == {i \in 1..Len(s) : \E j \in i..Len(s) : s[j] # "0"}
    IN  SubSeq(s, 1, Cardinality(kept))

\* viem formatUnits(value, decimals) for a non-negative value given by its
\* decimal digits: the last `decimals` digits are the fraction, its trailing
\* zeros are dropped, an empty integer part reads "0".
formatUnits(value, decimals) ==
    LET display  == PadStart(value, decimals)
        integer  == SubSeq(display, 1, Len(display) - decimals)
        fraction == StripTrailingZeros(
                        SubSeq(display, Len(display) - decimals + 1, Len(display)))
    IN  (IF integer = <<>> THEN <<"0">> ELSE integer)
        \o (IF fraction = <<>> THEN <<>> ELSE <<".">> \o fraction)

\* The native unit has 18 decimals.
EtherDecimals == 18

formatEther(wei) == formatUnits(wei, EtherDecimals)

\* Number.prototype.toLocaleString(): the digits in groups of three.
RECURSIVE GroupThousands(_)
GroupThousands(s) ==
    IF Len(s) <= 3 THEN s
    ELSE GroupThousands(SubSeq(s, 1, Len(s) - 3))
         \o <<",">> \o SubSeq(s, Len(s) - 2, Len(s))

toLocaleString(n) == GroupThousands(ToDigits(n))

-----------------------------------------------------------------------------
(* Address strings *)

\* The strings a caller may pass as contractAddress, described by what the
\* validator inspects.  The two valid strings name the same account.
AddressInputs ==
    { [text |-> "0xabc_lower",    prefix |-> TRUE,  hexChars |-> 40, onlyHex |-> TRUE,
       lowerCase |-> TRUE,  checksumOk |-> FALSE],
      [text |-> "0xAbC_checksum", prefix |-> TRUE,  hexChars |-> 40, onlyHex |-> TRUE,
       lowerCase |-> FALSE, checksumOk |-> TRUE],
      [text |-> "0xABc_badsum",   prefix |-> TRUE,  hexChars |-> 40, onlyHex |-> TRUE,
       lowerCase |-> FALSE, checksumOk |-> FALSE],
      [text |-> "0xabc_short",    prefix |-> TRUE,  hexChars |-> 39, onlyHex |-> TRUE,
       lowerCase |-> TRUE,  checksumOk |-> FALSE],
      [text |-> "0xxyz_nonhex",   prefix |-> TRUE,  hexChars |-> 40, onlyHex |-> FALSE,
       lowerCase |-> TRUE,  checksumOk |-> FALSE],
      [text |-> "abc_noprefix",   prefix |-> FALSE, hexChars |-> 40, onlyHex |-> TRUE,
       lowerCase |-> TRUE,  checksumOk |-> FALSE] }

\* viem isAddress: 0x and forty hex characters; a string that is not all
\* lower case must also carry a correct mixed-case checksum.
isAddress(a) ==
    /\ a.prefix
    /\ a.hexChars = 40
    /\ a.onlyHex
    /\ (a.lowerCase \/ a.checksumOk)

-----------------------------------------------------------------------------
(* The collaborators' answers *)

Sites == { "fetch", "getBytecode", "getBalance", "name", "symbol", "decimals",
           "totalSupply", "supportsInterface", "name721", "symbol721" }

\* The collaborator operation a call site invokes.
OpOf(site) ==
    CASE site = "name721"   -> "name"
      [] site = "symbol721" -> "symbol"
      [] OTHER              -> site

Ops == { OpOf(s) : s \in Sites }

Unasked == [asked |-> FALSE]

\* One entry of the registry's result list.
VerifiedSource ==
    [SourceCode |-> "contract C {}", ContractName |-> "C",
     CompilerVersion |-> "v0.8.20", OptimizationUsed |-> "1", Runs |-> "200"]

UnoptimizedSource ==
    [SourceCode |-> "contract D {}", ContractName |-> "D",
     CompilerVersion |-> "v0.8.19", OptimizationUsed |-> "0", Runs |-> ""]

EmptySource ==
    [SourceCode |-> "", ContractName |-> "", CompilerVersion |-> "",
     OptimizationUsed |-> "", Runs |-> ""]

\* The JSON bodies the registry may send: text that does not parse, the
\* JSON value null, and objects with a status and a result that is a list,
\* a message string (hasList FALSE) or missing (hasResult FALSE).
Body(parses, isObject, status, hasResult, hasList, result) ==
    [parses |-> parses, isObject |-> isObject, status |-> status,
     hasResult |-> hasResult, hasList |-> hasList, result |-> result]

RegistryBodies ==
    { Body(FALSE, FALSE, "", FALSE, FALSE, <<>>),
      Body(TRUE,  FALSE, "", FALSE, FALSE, <<>>),
      Body(TRUE,  TRUE,  "0", TRUE,  FALSE, <<>>),
      Body(TRUE,  TRUE,  "1", FALSE, FALSE, <<>>),
      Body(TRUE,  TRUE,  "1", TRUE,  TRUE,  <<>>),
      Body(TRUE,  TRUE,  "1", TRUE,  TRUE,  <<EmptySource>>),
      Body(TRUE,  TRUE,  "0", TRUE,  TRUE,  <<VerifiedSource>>),
      Body(TRUE,  TRUE,  "1", TRUE,  TRUE,  <<VerifiedSource>>),
      Body(TRUE,  TRUE,  "1", TRUE,  TRUE,  <<UnoptimizedSource>>) }

NoBody == Body(FALSE, FALSE, "", FALSE, FALSE, <<>>)

\* What becomes of the HTTP request: it never completes (node-fetch is called
\* with no timeout and no abort signal), it rejects, or it resolves with a
\* status and a body.
RegistryAnswers ==
    { [asked |-> TRUE, completes |-> FALSE, ok |-> FALSE, httpOk |-> FALSE, body |-> NoBody],
      [asked |-> TRUE, completes |-> TRUE,  ok |-> FALSE, httpOk |-> FALSE, body |-> NoBody],
      [asked |-> TRUE, completes |-> TRUE,  ok |-> TRUE,  httpOk |-> FALSE, body |-> NoBody] }
    \cup { [asked |-> TRUE, completes |-> TRUE, ok |-> TRUE, httpOk |-> TRUE, body |-> b] :
             b \in RegistryBodies }

\* A chain read rejects (ok FALSE) or resolves with a value.  The reads go
\* through the client's http() transport (line 228), which gives up on a
\* request that gets no response and rejects it: a chain read always settles.
Rejected(v) == [asked |-> TRUE, ok |-> FALSE, val |-> v]
Resolved(v) == [asked |-> TRUE, ok |-> TRUE, val |-> v]

\* getBytecode resolves to undefined or to "0x" followed by the code in hex.
NoCode == [defined |-> FALSE, hex |-> <<>>]
Code(bytes) == [defined |-> TRUE, hex |-> Zeros(2 * bytes)]

BytecodeAnswers ==
    {Rejected(NoCode), Resolved(NoCode)} \cup { Resolved(Code(n)) : n \in 0..MaxCodeBytes }

\* Amounts in wei, as decimal digits: 0, 5 * 10^18 and 15 * 10^17.
WeiAmounts == { <<"0">>, <<"5">> \o Zeros(18), <<"1", "5">> \o Zeros(17) }

BalanceAnswers == {Rejected(<<"0">>)} \cup { Resolved(w) : w \in WeiAmounts }

StringAnswers(site) ==
    {Rejected(""), Resolved(IF OpOf(site) = "name" THEN "Token" ELSE "TKN")}

DecimalsAnswers == {Rejected(0), Resolved(0), Resolved(6), Resolved(18)}

TotalSupplyAnswers == {Rejected(<<"0">>), Resolved(<<"1", "0", "0", "0">>)}

SupportsAnswers == {Rejected(FALSE), Resolved(FALSE), Resolved(TRUE)}

Answers(site) ==
    CASE site = "fetch"             -> RegistryAnswers
      [] site = "getBytecode"       -> BytecodeAnswers
      [] site = "getBalance"        -> BalanceAnswers
      [] site = "decimals"          -> DecimalsAnswers
      [] site = "totalSupply"       -> TotalSupplyAnswers
      [] site = "supportsInterface" -> SupportsAnswers
      [] OTHER                      -> StringAnswers(site)

-----------------------------------------------------------------------------
(* The handler's state *)

VARIABLES
    pc,              \* per request: the await the handler is suspended on
    contractAddress, \* per request: the tool's argument
    sourceCodeData,  \* per request: the local of line 535
    contractInfo,    \* per request: the local of lines 575-584
    output,          \* per request: the text of the returned content item
    calls,           \* per request: collaborator calls issued, per operation
    world,           \* the chain and registry state: the answer of each call site
    tokenBalance,    \* the call of get-erc20-balance: its await, arguments, answers, text
    toolCall         \* the call of one of the other tools: its position and response

vars == <<pc, contractAddress, sourceCodeData, contractInfo, output, calls, world,
          tokenBalance, toolCall>>

Null == [isNull |-> TRUE]

NoOutput == <<>>

\* The contract functions get-erc20-balance calls on the token.
TokenFunctions == {"balanceOf", "name", "symbol", "decimals"}

\* get-erc20-balance has not been called.
NoTokenCall ==
    [pc |-> "unused", address |-> Null, tokenAddress |-> Null,
     answers |-> [f \in TokenFunctions |-> Unasked], output |-> NoOutput]

\* let contractInfo: ContractInfo = {...}, lines 575-584
InitialContractInfo ==
    [exists |-> FALSE, isContract |-> FALSE, balance |-> <<"0">>, bytecodeSize |-> 0,
     isERC20 |-> FALSE, isERC721 |-> FALSE, tokenInfo |-> Null, transactionCount |-> 0]

\* What a handler hands to the dispatch layer when it has returned nothing.
NoResponse == [content |-> <<>>]

\* None of the other tools has been called.
NoToolCall ==
    [tool |-> "", pc |-> "unused", at |-> 0, threw |-> FALSE, raised |-> FALSE,
     response |-> NoResponse]

InitWith(started) ==
    /\ toolCall = NoToolCall
    /\ pc = [r \in Requests |-> IF r \in started THEN "start" ELSE "unused"]
    /\ \E a \in AddressInputs : contractAddress = [r \in Requests |-> a]
    /\ sourceCodeData = [r \in Requests |-> Null]
    /\ contractInfo = [r \in Requests |-> InitialContractInfo]
    /\ output = [r \in Requests |-> NoOutput]
    /\ calls = [r \in Requests |-> [o \in Ops |-> 0]]
    /\ world = [s \in Sites |-> Unasked]

Init == InitWith({1}) /\ tokenBalance = NoTokenCall

-----------------------------------------------------------------------------
(* Issuing collaborator calls *)

\* The answer a call site gets is fixed by the world: drawn at the first
\* call, the same at every later one.
Answered(site, a) == world[site] \in {Unasked, a}

\* calls after request r has issued one call at each of the sites.
Count(r, sites) ==
    [calls EXCEPT ![r] =
        [o \in Ops |-> calls[r][o] + Cardinality({s \in sites : OpOf(s) = o})]]

-----------------------------------------------------------------------------
(* The returned text *)

\* The outer catch, lines 754-766.
FailureText(message) ==
    << "Failed to analyze contract: ", message,
       "Make sure:", "- The address format is valid",
       "- You have internet connectivity",
       "- The Monad testnet RPC is accessible" >>

\* `${object.field}` in a template: a field the object lacks reads undefined.
Shown(object, field, isNumber) ==
    IF field \notin DOMAIN object THEN << "undefined" >>
    ELSE IF isNumber THEN ToDigits(object[field])
    ELSE object[field]

\* Token information, lines 706-720.
TokenSection(info) ==
    IF info.isERC20 /\ info.tokenInfo # Null
    THEN << "ERC-20 Token Detected:", "- Name:", info.tokenInfo.name,
            "- Symbol:", info.tokenInfo.symbol, "- Decimals:" >>
         \o Shown(info.tokenInfo, "decimals", TRUE)
         \o << "- Total Supply:" >> \o Shown(info.tokenInfo, "totalSupply", FALSE)
         \o << info.tokenInfo.symbol >>
    ELSE IF info.isERC721 /\ info.tokenInfo # Null
    THEN << "ERC-721 NFT Detected:", "- Name:", info.tokenInfo.name,
            "- Symbol:", info.tokenInfo.symbol >>
    ELSE << "Smart Contract (Unknown Type)",
            "- Could be: DeFi protocol, custom contract, proxy, etc." >>

\* Source code information, lines 722-744.
SourceSection(address, src) ==
    IF src # Null
    THEN << "Verified Source Code Available:",
            "Contract Name:", src.ContractName,
            "Compiler:", src.CompilerVersion,
            "Optimization:", IF src.OptimizationUsed = "1" THEN "Enabled" ELSE "Disabled",
            "Runs:", IF src.Runs # "" THEN src.Runs ELSE "N/A",
            "ABI Available: Yes", "Source Code: Available",
            "View Source:", address.text, "#code" >>
    ELSE << "Source Code Not Verified",
            "To verify (if you're the developer):",
            "- Foundry: forge verify-contract", address.text,
            "- Hardhat: npx hardhat verify", address.text,
            "- Manual: Use Monadscan's verification interface",
            "View Contract:", address.text >>

BuildResponseAlwaysSource(address, info, src) ==
    << "Contract Analysis for", address.text >>
    \o (IF ~info.isContract
        THEN << "This is not a contract - it's an Externally Owned Account (EOA)",
                "Balance:" >> \o info.balance
             \o << "MON", "View on Monadscan:", address.text >>
        ELSE << "Contract Information:", "Balance:" >> \o info.balance
             \o << "MON", "Bytecode Size:" >> \o toLocaleString(info.bytecodeSize)
             \o << "bytes" >>
             \o TokenSection(info))
    \o SourceSection(address, src)

\* Step 3: Build comprehensive response, lines 693-745.
BuildResponse(address, info, src) ==
    << "Contract Analysis for", address.text >>
    \o (IF ~info.isContract
        THEN << "This is not a contract - it's an Externally Owned Account (EOA)",
                "Balance:" >> \o info.balance
             \o << "MON", "View on Monadscan:", address.text >>
        ELSE << "Contract Information:", "Balance:" >> \o info.balance
             \o << "MON", "Bytecode Size:" >> \o toLocaleString(info.bytecodeSize)
             \o << "bytes" >>
             \o TokenSection(info)
             \o SourceSection(address, src))

-----------------------------------------------------------------------------
(* The handler, from one await to the next *)

\* throw inside the outer try: the catch of lines 754-766 returns the failure.
Throw(r, message) ==
    /\ output' = [output EXCEPT ![r] = FailureText(message)]
    /\ pc' = [pc EXCEPT ![r] = "done"]

\* return { content: [{ type: "text", text: response }] }, lines 693-752.
Return(r, info) ==
    /\ output' = [output EXCEPT ![r] = BuildResponse(contractAddress[r], info, sourceCodeData[r])]
    /\ pc' = [pc EXCEPT ![r] = "done"]

\* sourceCodeData is a local of the handler (let, line 535): an assignment
\* changes the variable of the running call alone.
SetSourceCodeDataShared(r, v) == [q \in Requests |-> v]

SetSourceCodeData(r, v) == [sourceCodeData EXCEPT ![r] = v]

\* Lines 533-552: Step 1, request the verified source from Monadscan.
RequestSource(r) ==
    /\ sourceCodeData' = SetSourceCodeData(r, Null)
    /\ \E a \in Answers("fetch") :
          /\ Answered("fetch", a)
          /\ world' = [world EXCEPT !["fetch"] = a]
    /\ calls' = Count(r, {"fetch"})
    /\ pc' = [pc EXCEPT ![r] = "awaitFetch"]
    /\ UNCHANGED output

BeginUnvalidated(r) ==
    /\ pc[r] = "start"
    /\ RequestSource(r)
    /\ UNCHANGED <<toolCall, tokenBalance, contractAddress, contractInfo>>

\* Lines 528-552: validate, then request the verified source.
Begin(r) ==
    /\ pc[r] = "start"
    /\ IF ~isAddress(contractAddress[r])
       THEN /\ Throw(r, "Invalid contract address format")
            /\ UNCHANGED <<sourceCodeData, calls, world>>
       ELSE RequestSource(r)
    /\ UNCHANGED <<toolCall, tokenBalance, contractAddress, contractInfo>>

StartOnChainShared(r, src) ==
    /\ sourceCodeData' = SetSourceCodeData(r, src)
    /\ contractInfo' = [q \in Requests |-> InitialContractInfo]
    /\ \E a \in Answers("getBytecode") :
          /\ Answered("getBytecode", a)
          /\ world' = [world EXCEPT !["getBytecode"] = a]
    /\ calls' = Count(r, {"getBytecode"})
    /\ pc' = [pc EXCEPT ![r] = "awaitBytecode"]
    /\ UNCHANGED <<toolCall, tokenBalance, contractAddress, output>>

\* Lines 563-589: Step 2 starts with the code check.
StartOnChain(r, src) ==
    /\ sourceCodeData' = SetSourceCodeData(r, src)
    /\ contractInfo' = [contractInfo EXCEPT ![r] = InitialContractInfo]
    /\ \E a \in Answers("getBytecode") :
          /\ Answered("getBytecode", a)
          /\ world' = [world EXCEPT !["getBytecode"] = a]
    /\ calls' = Count(r, {"getBytecode"})
    /\ pc' = [pc EXCEPT ![r] = "awaitBytecode"]
    /\ UNCHANGED <<toolCall, tokenBalance, contractAddress, output>>

RegistryRethrow(r) ==
    /\ Throw(r, "fetch failed")
    /\ UNCHANGED <<toolCall, tokenBalance, contractAddress, sourceCodeData, contractInfo, calls, world>>

RegistryRetry(r) ==
    IF calls[r]["fetch"] < 2
    THEN /\ calls' = Count(r, {"fetch"})
         /\ pc' = [pc EXCEPT ![r] = "awaitFetch"]
         /\ UNCHANGED <<toolCall, tokenBalance, contractAddress, sourceCodeData, contractInfo, output, world>>
    ELSE StartOnChain(r, sourceCodeData[r])

\* catch (apiError), lines 559-561: log and go on with the on-chain analysis.
RegistryCatch(r) == StartOnChain(r, sourceCodeData[r])

\* Lines 552-553: the request completed.
FetchDone(r) ==
    /\ pc[r] = "awaitFetch"
    /\ world["fetch"].completes
    /\ IF ~world["fetch"].ok
       THEN RegistryCatch(r)
       ELSE IF world["fetch"].httpOk
       THEN /\ pc' = [pc EXCEPT ![r] = "awaitJson"]
            /\ UNCHANGED <<toolCall, tokenBalance, contractAddress, sourceCodeData, contractInfo, output, calls, world>>
       ELSE StartOnChain(r, sourceCodeData[r])

SelectSourceAnyStatus(body, src) ==
    IF ~body.parses \/ ~body.isObject \/ ~body.hasResult
    THEN [threw |-> TRUE, value |-> src]
    ELSE IF ~body.hasList THEN [threw |-> FALSE, value |-> src]
    ELSE IF body.result = <<>> THEN [threw |-> TRUE, value |-> src]
    ELSE IF body.result[1].SourceCode # ""
         THEN [threw |-> FALSE, value |-> body.result[1]]
         ELSE [threw |-> FALSE, value |-> src]

SelectSourceAnyCode(body, src) ==
    IF ~body.parses \/ ~body.isObject THEN [threw |-> TRUE, value |-> src]
    ELSE IF body.status # "1" THEN [threw |-> FALSE, value |-> src]
    ELSE IF ~body.hasResult THEN [threw |-> TRUE, value |-> src]
    ELSE IF ~body.hasList THEN [threw |-> FALSE, value |-> src]
    ELSE IF body.result = <<>> THEN [threw |-> TRUE, value |-> src]
    ELSE [threw |-> FALSE, value |-> body.result[1]]

\* Lines 554-557 on a body: response.json() rejects on text that is not JSON;
\* a property read of null or undefined raises a TypeError.
SelectSource(body, src) ==
    IF ~body.parses THEN [threw |-> TRUE, value |-> src]
    ELSE IF ~body.isObject THEN [threw |-> TRUE, value |-> src]
    ELSE IF body.status # "1" THEN [threw |-> FALSE, value |-> src]
    ELSE IF ~body.hasResult THEN [threw |-> TRUE, value |-> src]
    ELSE IF ~body.hasList THEN [threw |-> FALSE, value |-> src]
    ELSE IF body.result = <<>> THEN [threw |-> TRUE, value |-> src]
    ELSE IF body.result[1].SourceCode # ""
         THEN [threw |-> FALSE, value |-> body.result[1]]
         ELSE [threw |-> FALSE, value |-> src]

\* Lines 554-558: the body arrived.
JsonDone(r) ==
    /\ pc[r] = "awaitJson"
    /\ LET got == SelectSource(world["fetch"].body, sourceCodeData[r])
       IN  IF got.threw THEN RegistryCatch(r) ELSE StartOnChain(r, got.value)

\* if (bytecode && bytecode !== "0x"), line 591
IsContractCodeAlways(bytecode) == TRUE

IsContractCodeAnyDefined(bytecode) == bytecode.defined

IsContractCode(bytecode) == bytecode.defined /\ bytecode.hex # <<>>

BytecodeSizeWithPrefix(bytecode) == (2 + Len(bytecode.hex)) \div 2

\* (bytecode.length - 2) / 2, line 594: the string is "0x" and the hex digits.
BytecodeSize(bytecode) == ((2 + Len(bytecode.hex)) - 2) \div 2

\* Lines 591-599 and 685-689: the code check resolved; read the balance.
BytecodeDone(r) ==
    /\ pc[r] = "awaitBytecode"
    /\ IF ~world["getBytecode"].ok
       THEN /\ Throw(r, "getBytecode failed")
            /\ UNCHANGED <<contractInfo, calls, world>>
       ELSE LET bytecode == world["getBytecode"].val
            IN  /\ IF IsContractCode(bytecode)
                   THEN /\ contractInfo' = [contractInfo EXCEPT ![r] =
                              [@ EXCEPT !.exists = TRUE, !.isContract = TRUE,
                                        !.bytecodeSize = BytecodeSize(bytecode)]]
                        /\ pc' = [pc EXCEPT ![r] = "awaitBalance"]
                   ELSE /\ pc' = [pc EXCEPT ![r] = "awaitEOABalance"]
                        /\ UNCHANGED contractInfo
                /\ \E a \in Answers("getBalance") :
                      /\ Answered("getBalance", a)
                      /\ world' = [world EXCEPT !["getBalance"] = a]
                /\ calls' = Count(r, {"getBalance"})
                /\ UNCHANGED output
    /\ UNCHANGED <<toolCall, tokenBalance, contractAddress, sourceCodeData>>

\* Lines 600-632: the contract's balance resolved; probe the ERC20 functions,
\* all four at once (Promise.all).
BalanceDone(r) ==
    /\ pc[r] = "awaitBalance"
    /\ IF ~world["getBalance"].ok
       THEN /\ Throw(r, "getBalance failed")
            /\ UNCHANGED <<contractInfo, calls, world>>
       ELSE /\ contractInfo' = [contractInfo EXCEPT ![r] =
                  [@ EXCEPT !.balance = formatEther(world["getBalance"].val)]]
            /\ \E n \in Answers("name"), s \in Answers("symbol"),
                  d \in Answers("decimals"), t \in Answers("totalSupply") :
                  /\ Answered("name", n) /\ Answered("symbol", s)
                  /\ Answered("decimals", d) /\ Answered("totalSupply", t)
                  /\ world' = [world EXCEPT !["name"] = n, !["symbol"] = s,
                                            !["decimals"] = d, !["totalSupply"] = t]
            /\ calls' = Count(r, {"name", "symbol", "decimals", "totalSupply"})
            /\ pc' = [pc EXCEPT ![r] = "awaitERC20"]
            /\ UNCHANGED output
    /\ UNCHANGED <<toolCall, tokenBalance, contractAddress, sourceCodeData>>

ProbeERC20Partial(info) ==
    IF /\ world["name"].ok /\ world["symbol"].ok
       /\ world["decimals"].ok /\ world["totalSupply"].ok
    THEN [info EXCEPT
            !.isERC20 = TRUE,
            !.tokenInfo = [name |-> world["name"].val,
                           symbol |-> world["symbol"].val,
                           decimals |-> world["decimals"].val,
                           totalSupply |-> formatUnits(world["totalSupply"].val,
                                                       world["decimals"].val)]]
    ELSE [info EXCEPT
            !.tokenInfo = [name |-> IF world["name"].ok
                                    THEN world["name"].val ELSE "Unknown",
                           symbol |-> IF world["symbol"].ok
                                      THEN world["symbol"].val ELSE "UNKNOWN"]]

ProbeERC20FlagOnly(info) ==
    IF /\ world["name"].ok /\ world["symbol"].ok
       /\ world["decimals"].ok /\ world["totalSupply"].ok
    THEN [info EXCEPT !.isERC20 = TRUE]
    ELSE info

ProbeERC20Truthy(info) ==
    IF /\ world["name"].ok /\ world["symbol"].ok
       /\ world["decimals"].ok /\ world["totalSupply"].ok
       /\ world["decimals"].val # 0
    THEN [info EXCEPT
            !.isERC20 = TRUE,
            !.tokenInfo = [name |-> world["name"].val,
                           symbol |-> world["symbol"].val,
                           decimals |-> world["decimals"].val,
                           totalSupply |-> formatUnits(world["totalSupply"].val,
                                                       world["decimals"].val)]]
    ELSE info

\* Lines 610-643: Promise.all resolves when all four calls resolved and
\* rejects when one rejected; the catch leaves contractInfo as it was.
ProbeERC20(info) ==
    IF /\ world["name"].ok /\ world["symbol"].ok
       /\ world["decimals"].ok /\ world["totalSupply"].ok
    THEN [info EXCEPT
            !.isERC20 = TRUE,
            !.tokenInfo = [name |-> world["name"].val,
                           symbol |-> world["symbol"].val,
                           decimals |-> world["decimals"].val,
                           totalSupply |-> formatUnits(world["totalSupply"].val,
                                                       world["decimals"].val)]]
    ELSE info

ChecksERC721Always(info) == TRUE

\* if (!contractInfo.isERC20), line 646
ChecksERC721(info) == ~info.isERC20

\* Lines 634-660: the ERC20 probe settled.
ERC20Done(r) ==
    /\ pc[r] = "awaitERC20"
    /\ LET info == ProbeERC20(contractInfo[r])
       IN  /\ contractInfo' = [contractInfo EXCEPT ![r] = info]
           /\ IF ChecksERC721(info)
              THEN /\ \E a \in Answers("supportsInterface") :
                         /\ Answered("supportsInterface", a)
                         /\ world' = [world EXCEPT !["supportsInterface"] = a]
                   /\ calls' = Count(r, {"supportsInterface"})
                   /\ pc' = [pc EXCEPT ![r] = "awaitSupports"]
                   /\ UNCHANGED output
              ELSE /\ Return(r, info)
                   /\ UNCHANGED <<calls, world>>
    /\ UNCHANGED <<toolCall, tokenBalance, contractAddress, sourceCodeData>>

SupportsRethrow(r) ==
    /\ Throw(r, "supportsInterface failed")
    /\ UNCHANGED <<contractInfo, calls, world>>

\* catch { // Not an ERC721 }, lines 681-683: go on to the response.
SupportsCatch(r) ==
    /\ Return(r, contractInfo[r])
    /\ UNCHANGED <<contractInfo, calls, world>>

\* Lines 662-675 and 681-683: supportsInterface(0x80ac58cd) settled.
SupportsDone(r) ==
    /\ pc[r] = "awaitSupports"
    /\ IF ~world["supportsInterface"].ok
       THEN SupportsCatch(r)
       ELSE IF world["supportsInterface"].val
       THEN /\ contractInfo' = [contractInfo EXCEPT ![r] = [@ EXCEPT !.isERC721 = TRUE]]
            /\ \E n \in Answers("name721"), s \in Answers("symbol721") :
                  /\ Answered("name721", n) /\ Answered("symbol721", s)
                  /\ world' = [world EXCEPT !["name721"] = n, !["symbol721"] = s]
            /\ calls' = Count(r, {"name721", "symbol721"})
            /\ pc' = [pc EXCEPT ![r] = "awaitMetadata"]
            /\ UNCHANGED output
       ELSE /\ Return(r, contractInfo[r])
            /\ UNCHANGED <<contractInfo, calls, world>>
    /\ UNCHANGED <<toolCall, tokenBalance, contractAddress, sourceCodeData>>

OrDefaultBlank(answer, default) == answer.val

\* .catch(() => "Unknown"), .catch(() => "UNKNOWN"), lines 669 and 674;
\* .catch(() => 18), line 338
OrDefault(answer, default) == IF answer.ok THEN answer.val ELSE default

MetadataDoneUncaught(r) ==
    /\ pc[r] = "awaitMetadata"
    /\ IF world["name721"].ok /\ world["symbol721"].ok
       THEN LET info == [contractInfo[r] EXCEPT
                           !.tokenInfo = [name |-> world["name721"].val,
                                          symbol |-> world["symbol721"].val]]
            IN  /\ contractInfo' = [contractInfo EXCEPT ![r] = info]
                /\ Return(r, info)
       ELSE /\ Throw(r, "readContract failed")
            /\ UNCHANGED contractInfo
    /\ UNCHANGED <<toolCall, tokenBalance, contractAddress, sourceCodeData, calls, world>>

\* Lines 676-679: name and symbol of the NFT settled.
MetadataDone(r) ==
    /\ pc[r] = "awaitMetadata"
    /\ LET info == [contractInfo[r] EXCEPT
                      !.tokenInfo = [name |-> OrDefault(world["name721"], "Unknown"),
                                     symbol |-> OrDefault(world["symbol721"], "UNKNOWN")]]
       IN  /\ contractInfo' = [contractInfo EXCEPT ![r] = info]
           /\ Return(r, info)
    /\ UNCHANGED <<toolCall, tokenBalance, contractAddress, sourceCodeData, calls, world>>

\* Lines 685-691: the balance of the externally owned account settled.
EOABalanceDone(r) ==
    /\ pc[r] = "awaitEOABalance"
    /\ IF ~world["getBalance"].ok
       THEN /\ Throw(r, "getBalance failed")
            /\ UNCHANGED contractInfo
       ELSE LET info == [contractInfo[r] EXCEPT
                           !.balance = formatEther(world["getBalance"].val)]
            IN  /\ contractInfo' = [contractInfo EXCEPT ![r] = info]
                /\ Return(r, info)
    /\ UNCHANGED <<toolCall, tokenBalance, contractAddress, sourceCodeData, calls, world>>

Next ==
    \E r \in Requests :
        \/ Begin(r)
        \/ FetchDone(r)
        \/ JsonDone(r)
        \/ BytecodeDone(r)
        \/ BalanceDone(r)
        \/ ERC20Done(r)
        \/ SupportsDone(r)
        \/ MetadataDone(r)
        \/ EOABalanceDone(r)

\* One analysis.
Spec == Init /\ [][Next]_vars

\* Two analyses of the same address string against the same chain and
\* registry state, in any interleaving of their steps (run one after the
\* other included).
Init2 == InitWith({1, 2}) /\ tokenBalance = NoTokenCall

Spec2 == Init2 /\ [][Next]_vars

\* The address strings of two concurrent analyses of different addresses:
\* the first is valid, the second is any other string.
PairInputs ==
    { p \in [Requests -> AddressInputs] :
        p[1].text = "0xabc_lower" /\ p[2] # p[1] }

\* Two analyses of different address strings, in any interleaving of their
\* steps, against one chain and registry state.
InitPair ==
    /\ pc = [r \in Requests |-> "start"]
    /\ contractAddress \in PairInputs
    /\ sourceCodeData = [r \in Requests |-> Null]
    /\ contractInfo = [r \in Requests |-> InitialContractInfo]
    /\ output = [r \in Requests |-> NoOutput]
    /\ calls = [r \in Requests |-> [o \in Ops |-> 0]]
    /\ world = [s \in Sites |-> Unasked]
    /\ tokenBalance = NoTokenCall
    /\ toolCall = NoToolCall

SpecPair == InitPair /\ [][Next]_vars

-----------------------------------------------------------------------------
(* get-erc20-balance, lines 295-358 *)

\* What the four contract calls of lines 317-339 may settle to.
TokenAnswers(f) ==
    CASE f = "balanceOf" -> BalanceAnswers
      [] f = "name"      -> StringAnswers("name")
      [] f = "symbol"    -> StringAnswers("symbol")
      [] f = "decimals"  -> DecimalsAnswers

\* The catch of lines 349-356.
TokenFailureText(message) == << "Failed to retrieve token balance: ", message >>

\* The text of lines 343-348.
TokenBalanceText(name, symbol, formattedBalance, tokenAddress) ==
    << "Token:", name, "(", symbol, ")", "Balance:" >>
    \o formattedBalance
    \o << symbol, "Token Address:", tokenAddress.text >>

GetERC20BalanceBeginWalletOnly ==
    /\ tokenBalance.pc = "start"
    /\ IF ~isAddress(tokenBalance.address)
       THEN tokenBalance' = [tokenBalance EXCEPT
                               !.pc = "done",
                               !.output = TokenFailureText("Invalid address format")]
       ELSE \E b \in TokenAnswers("balanceOf"), n \in TokenAnswers("name"),
               s \in TokenAnswers("symbol"), d \in TokenAnswers("decimals") :
               tokenBalance' =
                   [tokenBalance EXCEPT
                      !.pc = "awaitAll",
                      !.answers = [f \in TokenFunctions |->
                                     CASE f = "balanceOf" -> b
                                       [] f = "name"      -> n
                                       [] f = "symbol"    -> s
                                       [] f = "decimals"  -> d]]
    /\ UNCHANGED <<toolCall, pc, contractAddress, sourceCodeData, contractInfo, output, calls, world>>

\* Lines 305-340: validate both addresses, then issue balanceOf, name, symbol
\* and decimals at once.
GetERC20BalanceBegin ==
    /\ tokenBalance.pc = "start"
    /\ IF ~isAddress(tokenBalance.address) \/ ~isAddress(tokenBalance.tokenAddress)
       THEN tokenBalance' = [tokenBalance EXCEPT
                               !.pc = "done",
                               !.output = TokenFailureText("Invalid address format")]
       ELSE \E b \in TokenAnswers("balanceOf"), n \in TokenAnswers("name"),
               s \in TokenAnswers("symbol"), d \in TokenAnswers("decimals") :
               tokenBalance' =
                   [tokenBalance EXCEPT
                      !.pc = "awaitAll",
                      !.answers = [f \in TokenFunctions |->
                                     CASE f = "balanceOf" -> b
                                       [] f = "name"      -> n
                                       [] f = "symbol"    -> s
                                       [] f = "decimals"  -> d]]
    /\ UNCHANGED <<toolCall, pc, contractAddress, sourceCodeData, contractInfo, output, calls, world>>

\* Lines 316-356: Promise.all settled.  balanceOf has no catch of its own, so
\* its rejection rejects the whole; name, symbol and decimals resolve to their
\* defaults when the call rejects.
GetERC20BalanceDone ==
    /\ tokenBalance.pc = "awaitAll"
    /\ IF ~tokenBalance.answers["balanceOf"].ok
       THEN tokenBalance' = [tokenBalance EXCEPT
                               !.pc = "done",
                               !.output = TokenFailureText("balanceOf failed")]
       ELSE LET balance  == tokenBalance.answers["balanceOf"].val
                name     == OrDefault(tokenBalance.answers["name"], "Unknown")
                symbol   == OrDefault(tokenBalance.answers["symbol"], "UNKNOWN")
                decimals == OrDefault(tokenBalance.answers["decimals"], 18)
            IN  tokenBalance' = [tokenBalance EXCEPT
                                   !.pc = "done",
                                   !.output = TokenBalanceText(name, symbol,
                                                  formatUnits(balance, decimals),
                                                  tokenBalance.tokenAddress)]
    /\ UNCHANGED <<toolCall, pc, contractAddress, sourceCodeData, contractInfo, output, calls, world>>

\* One call of get-erc20-balance, on any pair of address strings.
InitTokenBalance ==
    /\ InitWith({})
    /\ \E a \in AddressInputs, t \in AddressInputs :
          tokenBalance = [NoTokenCall EXCEPT !.pc = "start", !.address = a,
                                             !.tokenAddress = t]

-----------------------------------------------------------------------------
(* The other tool handlers, lines 261-292, 361-518 and 771-1018 *)

\* return { content: [{ type: "text", text }] }
TextResponse(text) == [content |-> << [type |-> "text", text |-> text] >>]

\* A statement of a try block that can throw, or an await that can reject,
\* with the message of the error.
Step(op, message) == [op |-> op, message |-> message]

\* A handler: the statements of its try block that can throw, in order; the
\* first words of the texts it returns after them (success), or before the
\* first of them for some inputs (early); the first words of the text its
\* catch block returns (failure).
HandlerOf(steps, early, success, failure) ==
    [steps |-> steps, early |-> early, success |-> success, failure |-> failure]

OtherTools ==
    {"get-mon-balance", "get-transaction", "get-tx-receipt", "get-block",
     "decode-calldata", "readContract", "estimate-priority-fee",
     "get-monad-constants", "convert", "monad-docs", "read-monad-docs"}

Handler(tool) ==
    CASE tool = "get-mon-balance" ->
           HandlerOf(<< Step("isAddress", "Invalid address format"),
                        Step("getBalance", "getBalance failed") >>,
                     {}, {"Balance for"}, "Failed to retrieve balance: ")
      [] tool = "get-transaction" ->
           HandlerOf(<< Step("getTransaction", "getTransaction failed"),
                        Step("!tx", "Transaction not found") >>,
                     {}, {"Transaction Details:"}, "Failed to retrieve transaction: ")
      [] tool = "get-tx-receipt" ->
           HandlerOf(<< Step("getTransactionReceipt", "getTransactionReceipt failed") >>,
                     {}, {"Transaction Receipt:"}, "Failed to retrieve receipt: ")
      [] tool = "get-block" ->
           HandlerOf(<< Step("BigInt", "Cannot convert to a BigInt"),
                        Step("getBlock", "getBlock failed") >>,
                     {}, {"Block Information:"}, "Failed to retrieve block: ")
      [] tool = "decode-calldata" ->
           HandlerOf(<< Step("JSON.parse", "Unexpected token"),
                        Step("decodeFunctionData", "decodeFunctionData failed"),
                        Step("JSON.stringify", "Do not know how to serialize a BigInt") >>,
                     {}, {"Decoded Function Call:"}, "Failed to decode calldata: ")
      [] tool = "readContract" ->
           HandlerOf(<< Step("isAddress", "Invalid contract address"),
                        Step("JSON.parse", "Unexpected token"),
                        Step("readContract", "readContract failed"),
                        Step("JSON.stringify", "Do not know how to serialize a BigInt") >>,
                     {}, {"Contract Read Result:"}, "Failed to read contract: ")
      [] tool = "estimate-priority-fee" ->
           HandlerOf(<< Step("Promise.all", "getGasPrice or getBlock failed") >>,
                     {}, {"Gas Estimates:"}, "Failed to estimate gas: ")
      [] tool = "get-monad-constants" ->
           HandlerOf(<< Step("getChainId", "getChainId failed"),
                        Step("getBlockNumber", "getBlockNumber failed") >>,
                     {}, {"Monad Network Information:"}, "Failed to get constants: ")
      [] tool = "convert" ->
           HandlerOf(<< Step("conversion", "conversion failed") >>,
                     {}, {"Conversion Result:"}, "Conversion failed: ")
      [] tool = "monad-docs" ->
           HandlerOf(<< Step("encodeURIComponent", "URI malformed") >>,
                     {"Monad Documentation:"}, {"Search for"}, "Failed to access docs: ")
      [] tool = "read-monad-docs" ->
           HandlerOf(<< >>, {}, {"Documentation section:"}, "Failed to read docs section: ")

\* catch (error) { return { content: [{ type: "text", text: ... }] } }
ToolCatch(call, message) ==
    [call EXCEPT !.pc = "done", !.threw = TRUE,
                 !.response = TextResponse(<< Handler(call.tool).failure, message >>)]

\* The statement the handler is at runs to its end.
ToolStepOk ==
    /\ toolCall.pc = "running"
    /\ toolCall.at <= Len(Handler(toolCall.tool).steps)
    /\ toolCall' = [toolCall EXCEPT !.at = @ + 1]
    /\ UNCHANGED <<pc, contractAddress, sourceCodeData, contractInfo, output, calls,
                   world, tokenBalance>>

\* The statement the handler is at throws, or the promise it awaits rejects:
\* every one of them is inside the try block of its handler.
ToolStepThrows ==
    /\ toolCall.pc = "running"
    /\ toolCall.at <= Len(Handler(toolCall.tool).steps)
    /\ toolCall' = ToolCatch(toolCall, Handler(toolCall.tool).steps[toolCall.at].message)
    /\ UNCHANGED <<pc, contractAddress, sourceCodeData, contractInfo, output, calls,
                   world, tokenBalance>>

\* The handler returns its text: after the last statement that can throw,
\* or before the first for the inputs that need none.
ToolReturn ==
    /\ toolCall.pc = "running"
    /\ \E text \in (IF toolCall.at = Len(Handler(toolCall.tool).steps) + 1
                    THEN Handler(toolCall.tool).success ELSE {})
                   \cup (IF toolCall.at = 1 THEN Handler(toolCall.tool).early ELSE {}) :
          toolCall' = [toolCall EXCEPT !.pc = "done",
                                       !.response = TextResponse(<< text >>)]
    /\ UNCHANGED <<pc, contractAddress, sourceCodeData, contractInfo, output, calls,
                   world, tokenBalance>>

\* One call of one of the other tools.
InitToolCall ==
    /\ pc = [r \in Requests |-> "unused"]
    /\ contractAddress = [r \in Requests |-> CHOOSE a \in AddressInputs : TRUE]
    /\ sourceCodeData = [r \in Requests |-> Null]
    /\ contractInfo = [r \in Requests |-> InitialContractInfo]
    /\ output = [r \in Requests |-> NoOutput]
    /\ calls = [r \in Requests |-> [o \in Ops |-> 0]]
    /\ world = [s \in Sites |-> Unasked]
    /\ tokenBalance = NoTokenCall
    /\ \E tool \in OtherTools :
          toolCall = [NoToolCall EXCEPT !.tool = tool, !.pc = "running", !.at = 1]

\* The server handles one tool call, of any of its thirteen tools.
InitServer == Init \/ InitTokenBalance \/ InitToolCall

NextServer ==
    \/ Next
    \/ GetERC20BalanceBegin \/ GetERC20BalanceDone
    \/ ToolStepOk \/ ToolStepThrows \/ ToolReturn

SpecServer == InitServer /\ [][NextServer]_vars

-----------------------------------------------------------------------------
(* Properties *)

Done(r) == pc[r] = "done"

IsFailure(text) == text # <<>> /\ text[1] = "Failed to analyze contract: "

IsReport(text) == text # <<>> /\ text[1] = "Contract Analysis for"

\* The text has the tokens of part, in a row.
Contains(text, part) ==
    \E i \in 1..(Len(text) - Len(part) + 1) : SubSeq(text, i, i + Len(part) - 1) = part

Shows(text, marker) == \E i \in DOMAIN text : text[i] = marker

ProbeOps == {"name", "symbol", "decimals", "totalSupply", "supportsInterface"}

\* Request r has issued the call of the site.
Issued(r, site) == calls[r][OpOf(site)] > 0

\* The code check of request r resolved, with no code at the address.
ResolvedNoCode(r) ==
    /\ Issued(r, "getBytecode") /\ pc[r] # "awaitBytecode"
    /\ world["getBytecode"].ok
    /\ ~world["getBytecode"].val.defined \/ world["getBytecode"].val.hex = <<>>

\* The code check of request r resolved, with code at the address.
ResolvedCode(r) ==
    /\ Issued(r, "getBytecode") /\ pc[r] # "awaitBytecode"
    /\ world["getBytecode"].ok
    /\ world["getBytecode"].val.defined /\ world["getBytecode"].val.hex # <<>>

\* The balance read of request r was issued and rejected.
BalanceFailed(r) == Issued(r, "getBalance") /\ ~world["getBalance"].ok

\* C1: an analysis of a syntactically invalid address string issues no
\* collaborator call at all (no registry request, no code check, no balance
\* read, no contract call) and ends with the invalid-address failure.
C1_InvalidAddressNoCalls ==
    \A r \in Requests :
        ~isAddress(contractAddress[r]) =>
            /\ \A o \in Ops : calls[r][o] = 0
            /\ pc[r] \in {"unused", "start", "done"}
            /\ Done(r) => output[r] = FailureText("Invalid contract address format")

C1_Witness ==
    \E r \in Requests :
        /\ ~isAddress(contractAddress[r]) /\ Done(r)
        /\ IsFailure(output[r])
        /\ \A s \in Sites : world[s] = Unasked

\* The report of an externally owned account: the header, the EOA line, the
\* balance and the explorer link.
EOAReport(address, wei) ==
    << "Contract Analysis for", address.text,
       "This is not a contract - it's an Externally Owned Account (EOA)",
       "Balance:" >> \o formatEther(wei)
    \o << "MON", "View on Monadscan:", address.text >>

\* C2: once the code check has resolved with empty or absent code, no probe
\* call (name, symbol, decimals, totalSupply, supportsInterface) is ever
\* issued, and the report returned is the externally-owned-account report with
\* the balance and neither a classification nor a verification section.  (The
\* analysis returns no report only when the balance read itself fails.)
C2_EmptyCodeIsEOA ==
    \A r \in Requests :
        ResolvedNoCode(r) =>
            /\ \A o \in ProbeOps : calls[r][o] = 0
            /\ ~contractInfo[r].isContract
            /\ ~contractInfo[r].isERC20 /\ ~contractInfo[r].isERC721
            /\ contractInfo[r].tokenInfo = Null
            /\ contractInfo[r].bytecodeSize = 0
            /\ Done(r) =>
                 IF world["getBalance"].ok
                 THEN output[r] = EOAReport(contractAddress[r], world["getBalance"].val)
                 ELSE IsFailure(output[r])

\* An account with no code and 5 * 10^18 wei is reported with balance "5".
C2_Witness ==
    \E r \in Requests :
        /\ ResolvedNoCode(r) /\ Done(r)
        /\ world["getBytecode"].val = Code(0)
        /\ world["getBalance"] = Resolved(<<"5">> \o Zeros(18))
        /\ Contains(output[r], << "Balance:", "5", "MON" >>)
        /\ ~Shows(output[r], "Smart Contract (Unknown Type)")
        /\ ~Shows(output[r], "Source Code Not Verified")

\* name, symbol, decimals and totalSupply of request r have all settled.
ProbedERC20(r) ==
    /\ \A s \in {"name", "symbol", "decimals", "totalSupply"} : Issued(r, s)
    /\ pc[r] # "awaitERC20"

\* All four calls of the fungible candidate resolved.
AllFourResolved ==
    /\ world["name"].ok /\ world["symbol"].ok
    /\ world["decimals"].ok /\ world["totalSupply"].ok

\* The ERC-20 section for the answers of the chain.
ERC20Text ==
    << "ERC-20 Token Detected:", "- Name:", world["name"].val,
       "- Symbol:", world["symbol"].val, "- Decimals:" >>
    \o ToDigits(world["decimals"].val)
    \o << "- Total Supply:" >>
    \o formatUnits(world["totalSupply"].val, world["decimals"].val)
    \o << world["symbol"].val >>

\* C3: when name, symbol, decimals and totalSupply all succeed on a contract,
\* the classification is the fungible candidate with those four fields and
\* the report shows the ERC-20 section.  The non-fungible candidate is not
\* even asked (supportsInterface is never called), so what the address would
\* answer to it cannot change the result.
C3_FungibleWins ==
    \A r \in Requests :
        (ProbedERC20(r) /\ AllFourResolved) =>
            /\ contractInfo[r].isERC20 /\ ~contractInfo[r].isERC721
            /\ contractInfo[r].tokenInfo =
                  [name |-> world["name"].val, symbol |-> world["symbol"].val,
                   decimals |-> world["decimals"].val,
                   totalSupply |-> formatUnits(world["totalSupply"].val,
                                               world["decimals"].val)]
            /\ calls[r]["supportsInterface"] = 0
            /\ Done(r)
            /\ IsReport(output[r])
            /\ Contains(output[r], ERC20Text)
            /\ ~Shows(output[r], "ERC-721 NFT Detected:")
            /\ ~Shows(output[r], "Smart Contract (Unknown Type)")

\* A token with 6 decimals and a supply of 1000 units: "0.001 TKN".
C3_Witness ==
    \E r \in Requests :
        /\ ProbedERC20(r) /\ AllFourResolved /\ Done(r)
        /\ world["decimals"].val = 6
        /\ Contains(output[r],
               << "- Total Supply:", "0", ".", "0", "0", "1", "TKN" >>)

\* The registry request of request r failed: it rejected, it came back with
\* a non-success HTTP status, or its body carries a status other than "1".
RegistryFailed(r) ==
    /\ Issued(r, "fetch") /\ world["fetch"].completes
    /\ \/ ~world["fetch"].ok
       \/ ~world["fetch"].httpOk
       \/ /\ world["fetch"].body.parses /\ world["fetch"].body.isObject
          /\ world["fetch"].body.status # "1"

\* The classification section the chain's answers call for.
ClassificationText ==
    IF AllFourResolved THEN ERC20Text
    ELSE IF /\ world["supportsInterface"].asked
            /\ world["supportsInterface"].ok /\ world["supportsInterface"].val
    THEN << "ERC-721 NFT Detected:",
            "- Name:", IF world["name721"].ok THEN world["name721"].val ELSE "Unknown",
            "- Symbol:", IF world["symbol721"].ok THEN world["symbol721"].val ELSE "UNKNOWN" >>
    ELSE << "Smart Contract (Unknown Type)",
            "- Could be: DeFi protocol, custom contract, proxy, etc." >>

\* The report of a contract whose source is not verified.
UnverifiedContractReport(address) ==
    << "Contract Analysis for", address.text, "Contract Information:", "Balance:" >>
    \o formatEther(world["getBalance"].val)
    \o << "MON", "Bytecode Size:" >>
    \o ToDigits(Len(world["getBytecode"].val.hex) \div 2)
    \o << "bytes" >>
    \o ClassificationText
    \o << "Source Code Not Verified",
          "To verify (if you're the developer):",
          "- Foundry: forge verify-contract", address.text,
          "- Hardhat: npx hardhat verify", address.text,
          "- Manual: Use Monadscan's verification interface",
          "View Contract:", address.text >>

\* C4: when the registry request failed, the analysis of a contract returns
\* the report with the balance, the bytecode size, the classification the
\* chain's answers call for, and the source shown as not verified.  (No
\* report is returned only when the balance read itself fails.)
C4_RegistryFailureDegrades ==
    \A r \in Requests :
        (Done(r) /\ ResolvedCode(r) /\ RegistryFailed(r)) =>
            /\ sourceCodeData[r] = Null
            /\ IF world["getBalance"].ok
               THEN output[r] = UnverifiedContractReport(contractAddress[r])
               ELSE IsFailure(output[r])

C4_Witness ==
    \E r \in Requests :
        /\ Done(r) /\ ResolvedCode(r) /\ RegistryFailed(r)
        /\ ~world["fetch"].ok
        /\ contractInfo[r].isERC20
        /\ Shows(output[r], "ERC-20 Token Detected:")
        /\ Shows(output[r], "Source Code Not Verified")

\* C5: two analyses of the same address string, answered identically by
\* every collaborator, return the same text, however their steps interleave.
C5_SameAnswersSameReport ==
    (Done(1) /\ Done(2) /\ contractAddress[1] = contractAddress[2]) =>
        output[1] = output[2]

C5_Witness ==
    /\ Done(1) /\ Done(2)
    /\ contractAddress[1] = contractAddress[2]
    /\ IsReport(output[1]) /\ output[2] = output[1]
    /\ Shows(output[1], "ERC-721 NFT Detected:")
    /\ Shows(output[2], "Verified Source Code Available:")

\* The code check of request r resolved: the account kind is known.
KindResolved(r) ==
    /\ Issued(r, "getBytecode") /\ pc[r] # "awaitBytecode"
    /\ world["getBytecode"].ok

\* C6 as stated: once the address has validated and the kind has resolved,
\* the analysis never ends in the failure response.
C6_NoFailureAfterKind ==
    \A r \in Requests :
        (Done(r) /\ isAddress(contractAddress[r]) /\ KindResolved(r)) =>
            IsReport(output[r])

\* C6 as amended: once the address has validated and the kind has resolved,
\* the analysis ends in the failure response only when the balance read
\* fails; a failure of a probe call or of the registry request only degrades
\* a field, and a report is returned.
C6_OnlyBalanceFailsAfterKind ==
    \A r \in Requests :
        (Done(r) /\ isAddress(contractAddress[r]) /\ KindResolved(r)) =>
            IF BalanceFailed(r)
            THEN output[r] = FailureText("getBalance failed")
            ELSE IsReport(output[r])

\* A report although the registry request, the ERC20 probe and
\* supportsInterface all failed.
C6_Witness ==
    \E r \in Requests :
        /\ Done(r) /\ KindResolved(r) /\ ResolvedCode(r)
        /\ ~world["fetch"].ok
        /\ world["getBalance"].ok
        /\ ~world["name"].ok /\ ~world["totalSupply"].ok
        /\ world["supportsInterface"].asked /\ ~world["supportsInterface"].ok
        /\ IsReport(output[r])
        /\ Shows(output[r], "Smart Contract (Unknown Type)")

\* The code check of request r was issued and rejected.
CodeCheckFailed(r) == Issued(r, "getBytecode") /\ ~world["getBytecode"].ok

\* C7: an analysis ends with the failure response exactly when the address
\* is invalid, the code check fails or the balance read fails; in every other
\* case, whatever the probe calls and the registry request did, it ends with
\* a report.
C7_FailureExits ==
    \A r \in Requests :
        Done(r) =>
            /\ IsFailure(output[r]) <=>
                  \/ ~isAddress(contractAddress[r])
                  \/ CodeCheckFailed(r)
                  \/ BalanceFailed(r)
            /\ IsReport(output[r]) <=> ~IsFailure(output[r])

C7_Witness ==
    \E r \in Requests :
        /\ Done(r) /\ ResolvedNoCode(r) /\ BalanceFailed(r)
        /\ output[r] = FailureText("getBalance failed")

\* The registry answered with a success HTTP status, status "1" and a first
\* result with a non-empty SourceCode.
RegistrySuccess ==
    /\ world["fetch"].completes /\ world["fetch"].ok /\ world["fetch"].httpOk
    /\ world["fetch"].body.parses /\ world["fetch"].body.isObject
    /\ world["fetch"].body.status = "1"
    /\ world["fetch"].body.hasResult /\ world["fetch"].body.hasList
    /\ world["fetch"].body.result # <<>>
    /\ world["fetch"].body.result[1].SourceCode # ""

\* The registry lookup of request r is over.
LookupOver(r) == Issued(r, "fetch") /\ pc[r] \notin {"awaitFetch", "awaitJson"}

\* C8: after the lookup the verification record is present exactly when the
\* registry answered with success and a non-empty SourceCode, and it is then
\* the first result; in every other case it is none.  The lookup never
\* raises: the analysis always goes on to the code check.  The report of a
\* contract shows the verified section exactly when the record is present.
C8_VerificationIffSuccess ==
    \A r \in Requests :
        LookupOver(r) =>
            /\ sourceCodeData[r] # Null <=> RegistrySuccess
            /\ RegistrySuccess => sourceCodeData[r] = world["fetch"].body.result[1]
            /\ Issued(r, "getBytecode")
            /\ (Done(r) /\ IsReport(output[r]) /\ contractInfo[r].isContract) =>
                  /\ Shows(output[r], "Verified Source Code Available:") <=> RegistrySuccess
                  /\ Shows(output[r], "Source Code Not Verified") <=> ~RegistrySuccess

C8_Witness ==
    \E r \in Requests :
        /\ LookupOver(r) /\ Done(r) /\ RegistrySuccess
        /\ contractInfo[r].isContract
        /\ Contains(output[r], << "Optimization:", "Disabled", "Runs:", "N/A" >>)

\* C9: no collaborator call can hang the request: an analysis that has not
\* returned can always take its next step, so that it eventually returns, also
\* when a collaborator call never completes.
C9_NeverHangs ==
    (\A r \in Requests : pc[r] \in {"unused", "done"}) \/ ENABLED Next

ClassMarkers ==
    {"ERC-20 Token Detected:", "ERC-721 NFT Detected:", "Smart Contract (Unknown Type)"}

\* C10: in every state isERC20 and isERC721 are not both true, and the
\* returned text has at most one of the ERC-20, ERC-721 and unknown-type
\* sections, the one of the flag that is set.
C10_NeverBothKinds ==
    \A r \in Requests :
        /\ ~(contractInfo[r].isERC20 /\ contractInfo[r].isERC721)
        /\ Cardinality({i \in DOMAIN output[r] : output[r][i] \in ClassMarkers}) <= 1
        /\ Shows(output[r], "ERC-20 Token Detected:") => contractInfo[r].isERC20
        /\ Shows(output[r], "ERC-721 NFT Detected:") => contractInfo[r].isERC721

\* An NFT whose name and symbol also answered the ERC20 probe.
C10_Witness ==
    \E r \in Requests :
        /\ Done(r) /\ contractInfo[r].isERC721
        /\ world["name"].ok /\ world["symbol"].ok
        /\ Shows(output[r], "ERC-721 NFT Detected:")
        /\ ~Shows(output[r], "ERC-20 Token Detected:")


\* supportsInterface(0x80ac58cd) was asked and answered true.
DeclaresERC721 ==
    /\ world["supportsInterface"].asked
    /\ world["supportsInterface"].ok /\ world["supportsInterface"].val

\* C11: at the end of every analysis tokenInfo is non-null exactly when
\* isERC20 or isERC721 is true; and the classification of a contract whose
\* balance was read has no matched candidate exactly when neither the four
\* calls of the fungible candidate all succeeded nor supportsInterface
\* answered true.
C11_TokenInfoIffMatched ==
    \A r \in Requests :
        Done(r) =>
            /\ (contractInfo[r].tokenInfo # Null) <=>
                   (contractInfo[r].isERC20 \/ contractInfo[r].isERC721)
            /\ (ResolvedCode(r) /\ IsReport(output[r])) =>
                 /\ (~contractInfo[r].isERC20 /\ ~contractInfo[r].isERC721) <=>
                        (~AllFourResolved /\ ~DeclaresERC721)
                 /\ Shows(output[r], "Smart Contract (Unknown Type)") <=>
                        (contractInfo[r].tokenInfo = Null)

\* A contract on which symbol() reverts and supportsInterface answers false:
\* no candidate matched, no token fields.
C11_Witness ==
    \E r \in Requests :
        /\ Done(r) /\ ResolvedCode(r) /\ IsReport(output[r])
        /\ world["name"].ok /\ ~world["symbol"].ok
        /\ world["supportsInterface"] = Resolved(FALSE)
        /\ contractInfo[r].tokenInfo = Null
        /\ ~contractInfo[r].isERC20 /\ ~contractInfo[r].isERC721
        /\ Shows(output[r], "Smart Contract (Unknown Type)")


\* A probe call of request r was issued and rejected.
ProbeCallFailed(r, site) == Issued(r, site) /\ world[site].asked /\ ~world[site].ok

ProbeSites ==
    {"name", "symbol", "decimals", "totalSupply", "supportsInterface",
     "name721", "symbol721"}

\* C12: a rejection of any probe call (name, symbol, decimals, totalSupply,
\* supportsInterface, and name or symbol asked again for the NFT) is caught
\* inside the probe: the analysis of a contract whose code check and balance
\* read succeeded goes on after it and ends with a report that has a
\* classification section, never with the failure response.
C12_ProbeFailureCaught ==
    \A r \in Requests :
        \A site \in ProbeSites :
            (ResolvedCode(r) /\ world["getBalance"].ok /\ ProbeCallFailed(r, site)) =>
                /\ pc[r] \in {"awaitERC20", "awaitSupports", "awaitMetadata", "done"}
                /\ Done(r) =>
                     /\ IsReport(output[r])
                     /\ ~IsFailure(output[r])
                     /\ Contains(output[r], ClassificationText)

\* name, symbol, decimals and totalSupply reject, supportsInterface answers
\* true, and name and symbol reject again: the report is the NFT report
\* with the default name and symbol.
C12_Witness ==
    \E r \in Requests :
        /\ Done(r) /\ ResolvedCode(r) /\ IsReport(output[r])
        /\ \A site \in {"name", "symbol", "decimals", "totalSupply",
                        "name721", "symbol721"} : ProbeCallFailed(r, site)
        /\ Contains(output[r], << "ERC-721 NFT Detected:", "- Name:", "Unknown",
                                  "- Symbol:", "UNKNOWN" >>)


\* C13 as stated: within one analysis every collaborator call (the registry
\* request, the code check, the balance read, name, symbol, decimals,
\* totalSupply, supportsInterface) is issued at most once.
C13_EachCallAtMostOnce ==
    \A r \in Requests : \A o \in Ops : calls[r][o] <= 1

\* C13 as amended: within one analysis the registry request, the code check,
\* the balance read, decimals, totalSupply and supportsInterface are issued
\* at most once, also after they failed.  name and symbol are issued at most
\* twice: once by the ERC20 probe, and once more, whatever they answered the
\* first time, exactly when the ERC20 probe did not match and
\* supportsInterface answered true.
C13_AtMostOncePerProbe ==
    \A r \in Requests :
        /\ \A o \in Ops \ {"name", "symbol"} : calls[r][o] <= 1
        /\ \A o \in {"name", "symbol"} :
              /\ calls[r][o] <= 2
              /\ calls[r][o] = 2 <=>
                    /\ ProbedERC20(r) /\ ~AllFourResolved
                    /\ DeclaresERC721 /\ pc[r] \in {"awaitMetadata", "done"}

\* name() rejected in the ERC20 probe and is called a second time for the
\* NFT, where it rejects again.
C13_Witness ==
    \E r \in Requests :
        /\ Done(r)
        /\ calls[r]["name"] = 2 /\ calls[r]["symbol"] = 2
        /\ ~world["name"].ok /\ ~world["name721"].ok
        /\ calls[r]["fetch"] = 1 /\ ~world["fetch"].ok
        /\ calls[r]["supportsInterface"] = 1


\* The registry request got no usable answer: it rejected, it came back with
\* a non-success HTTP status, or its body is not JSON.
RegistryRequestFailed(answer) ==
    /\ answer.asked /\ answer.completes
    /\ ~answer.ok \/ ~answer.httpOk \/ ~answer.body.parses

\* The registry answered, and its answer says that no source is verified:
\* status "1" with an entry whose SourceCode is empty, or status "0".
RegistryAnsweredUnverified(answer) ==
    /\ answer.asked /\ answer.completes /\ answer.ok /\ answer.httpOk
    /\ answer.body.parses /\ answer.body.isObject
    /\ \/ answer.body.status = "0"
       \/ /\ answer.body.status = "1" /\ answer.body.hasResult /\ answer.body.hasList
          /\ answer.body.result # <<>> /\ answer.body.result[1].SourceCode = ""

\* sourceCodeData after lines 551-561 for an answer of the registry.
SourceAfter(answer) ==
    IF answer.ok /\ answer.httpOk THEN SelectSource(answer.body, Null).value ELSE Null

\* The report request r returns had the registry given the answer, the
\* chain answering as it did: contractInfo does not depend on the registry.
ReportWithRegistry(r, answer) ==
    BuildResponse(contractAddress[r], contractInfo[r], SourceAfter(answer))

\* Every report returned is the one ReportWithRegistry gives for the answer
\* the registry did give.
ReportFollowsRegistry ==
    \A r \in Requests :
        (Done(r) /\ IsReport(output[r])) =>
            output[r] = ReportWithRegistry(r, world["fetch"])

\* C14: the report of a contract whose registry request failed differs from
\* the report the same contract gets when the registry answered that no
\* source is verified ('not checked' against 'checked, not found'); and a
\* classification that could not be checked because supportsInterface
\* failed is not shown with the marker of a contract that was checked and
\* matched no candidate.
C14_FailureDistinguished ==
    \A r \in Requests :
        (Done(r) /\ IsReport(output[r]) /\ ResolvedCode(r)) =>
            /\ RegistryRequestFailed(world["fetch"]) =>
                 \A answer \in RegistryAnswers :
                     RegistryAnsweredUnverified(answer) =>
                         output[r] # ReportWithRegistry(r, answer)
            /\ ProbeCallFailed(r, "supportsInterface") =>
                 ~Shows(output[r], "Smart Contract (Unknown Type)")


\* C15 as stated: the code check is the first collaborator call of every
\* analysis, and for an address with empty code the verification registry is
\* never contacted.
C15_CodeCheckFirst ==
    \A r \in Requests :
        /\ \A o \in Ops \ {"getBytecode"} : calls[r][o] > 0 => KindResolved(r)
        /\ ResolvedNoCode(r) => calls[r]["fetch"] = 0

\* C15 as amended: the registry request is the first collaborator call of
\* every analysis of a valid address and has settled before the code check,
\* the second call, is issued; every other call waits for the code check to
\* resolve.  For an address with empty code the analysis then reads the
\* balance and returns: the calls made are the registry request, the code
\* check and the balance read, once each, and the report is the
\* externally-owned-account report whatever the registry answered.
C15_RegistryThenCodeCheck ==
    \A r \in Requests :
        /\ Issued(r, "getBytecode") => (calls[r]["fetch"] = 1 /\ LookupOver(r))
        /\ \A o \in Ops \ {"fetch", "getBytecode"} : calls[r][o] > 0 => KindResolved(r)
        /\ ResolvedNoCode(r) =>
              /\ calls[r]["fetch"] = 1 /\ calls[r]["getBytecode"] = 1
              /\ calls[r]["getBalance"] = 1
              /\ \A o \in ProbeOps : calls[r][o] = 0
              /\ pc[r] \in {"awaitEOABalance", "done"}
              /\ (Done(r) /\ world["getBalance"].ok) =>
                    output[r] = EOAReport(contractAddress[r], world["getBalance"].val)

\* An account with no code for which the registry sent a verified source:
\* the registry was asked before the kind was known, and the report is the
\* account report.
C15_Witness ==
    \E r \in Requests :
        /\ Done(r) /\ ResolvedNoCode(r) /\ IsReport(output[r])
        /\ calls[r]["fetch"] = 1 /\ sourceCodeData[r] = VerifiedSource
        /\ ~Shows(output[r], "Verified Source Code Available:")
        /\ Shows(output[r], "View on Monadscan:")


\* C16: kind resolution completes before classification begins: whenever a
\* probe call (name, symbol, decimals, totalSupply, supportsInterface) has
\* been issued, the code check has already returned non-empty code and the
\* kind recorded is Contract.
C16_NoProbeBeforeCode ==
    \A r \in Requests :
        /\ (\E o \in ProbeOps : calls[r][o] > 0) =>
              (ResolvedCode(r) /\ contractInfo[r].isContract)
        /\ pc[r] \in {"start", "awaitFetch", "awaitJson", "awaitBytecode"} =>
              \A o \in ProbeOps : calls[r][o] = 0

\* The first probe calls are out and unanswered, on a contract of one byte.
C16_Witness ==
    \E r \in Requests :
        /\ pc[r] = "awaitERC20" /\ calls[r]["name"] = 1
        /\ ResolvedCode(r) /\ world["getBytecode"].val = Code(1)
        /\ contractInfo[r].isContract /\ contractInfo[r].bytecodeSize = 1


\* The registry answered with a success HTTP status and status "1", and its
\* result list is empty or missing.
EmptyResultList(answer) ==
    /\ answer.asked /\ answer.completes /\ answer.ok /\ answer.httpOk
    /\ answer.body.parses /\ answer.body.isObject /\ answer.body.status = "1"
    /\ ~answer.body.hasResult \/ (answer.body.hasList /\ answer.body.result = <<>>)

\* C17: when the registry answers with a success HTTP status and status "1"
\* but an empty or missing result list, the lookup resolves to none and the
\* analysis goes on to the code check: it does not fail because of the
\* answer, and the report of a contract shows the source as not verified.
C17_EmptyResultIsNone ==
    \A r \in Requests :
        (LookupOver(r) /\ EmptyResultList(world["fetch"])) =>
            /\ sourceCodeData[r] = Null
            /\ Issued(r, "getBytecode")
            /\ Done(r) =>
                 /\ IsFailure(output[r]) => (CodeCheckFailed(r) \/ BalanceFailed(r))
                 /\ (IsReport(output[r]) /\ ResolvedCode(r)) =>
                        /\ Shows(output[r], "Source Code Not Verified")
                        /\ ~Shows(output[r], "Verified Source Code Available:")

\* A contract report after the registry sent status "1" with an empty list.
C17_Witness ==
    \E r \in Requests :
        /\ Done(r) /\ ResolvedCode(r) /\ IsReport(output[r])
        /\ EmptyResultList(world["fetch"])
        /\ world["fetch"].body.hasResult /\ world["fetch"].body.result = <<>>
        /\ Shows(output[r], "Source Code Not Verified")


\* C19: the non-fungible candidate is asked only when the fungible candidate
\* did not match, and the answer of supportsInterface(0x80ac58cd) alone
\* decides it: the candidate is matched exactly when the call answered true,
\* whatever name and symbol do afterwards, and not matched when the call
\* failed or answered false.  Nothing else is probed for it: the only calls
\* after the declaration are the name and the symbol shown in the report.
C19_DeclarationAloneDecides ==
    \A r \in Requests :
        /\ Issued(r, "supportsInterface") => (ProbedERC20(r) /\ ~AllFourResolved)
        /\ contractInfo[r].isERC721 <=>
              /\ Issued(r, "supportsInterface") /\ pc[r] # "awaitSupports"
              /\ DeclaresERC721
        /\ (calls[r]["name"] = 2 \/ calls[r]["symbol"] = 2) => contractInfo[r].isERC721
        /\ (Done(r) /\ Issued(r, "supportsInterface") /\ world["getBalance"].ok) =>
              /\ IsReport(output[r])
              /\ Shows(output[r], "ERC-721 NFT Detected:") <=> DeclaresERC721

\* supportsInterface answered true, name() then resolved and symbol()
\* rejected: matched, with the symbol defaulted.
C19_Witness ==
    \E r \in Requests :
        /\ Done(r) /\ DeclaresERC721 /\ contractInfo[r].isERC721
        /\ world["name721"].ok /\ ~world["symbol721"].ok
        /\ Contains(output[r], << "ERC-721 NFT Detected:", "- Name:", "Token",
                                  "- Symbol:", "UNKNOWN" >>)


\* The kind and the size the handler has recorded so far.
Kind(info) == IF info.isContract THEN "Contract" ELSE "ExternallyOwned"

\* The kind and the size recorded for request r are those of the code the
\* code check returned.
KindAndSizeFromCode(r) ==
    /\ ResolvedNoCode(r) =>
          /\ Kind(contractInfo[r]) = "ExternallyOwned"
          /\ contractInfo[r].bytecodeSize = 0 /\ ~contractInfo[r].exists
    /\ ResolvedCode(r) =>
          /\ Kind(contractInfo[r]) = "Contract" /\ contractInfo[r].exists
          /\ 2 * contractInfo[r].bytecodeSize = Len(world["getBytecode"].val.hex)
          /\ contractInfo[r].bytecodeSize \in 1..MaxCodeBytes
    /\ (Done(r) /\ ResolvedCode(r) /\ IsReport(output[r])) =>
          Contains(output[r],
                   << "Bytecode Size:" >>
                   \o ToDigits(Len(world["getBytecode"].val.hex) \div 2)
                   \o << "bytes" >>)

\* C20: every step of an analysis leaves it in a state where, if the code
\* check has resolved, empty or absent code (undefined or "0x") has given the
\* kind ExternallyOwned with size 0 and non-empty code the kind Contract with
\* a size of half the number of hex characters after the "0x" prefix; and
\* once the code check has resolved, no step changes the kind or the size.
C20_KindFromCodeSetOnce ==
    [][\A r \in Requests :
          /\ KindAndSizeFromCode(r)'
          /\ KindResolved(r) =>
                /\ contractInfo'[r].isContract = contractInfo[r].isContract
                /\ contractInfo'[r].exists = contractInfo[r].exists
                /\ contractInfo'[r].bytecodeSize = contractInfo[r].bytecodeSize]_vars

\* A contract of two bytes ("0x" and four hex characters), reported as such
\* at the end of the analysis.
C20_Witness ==
    \E r \in Requests :
        /\ Done(r) /\ ResolvedCode(r)
        /\ Len(world["getBytecode"].val.hex) = 2 * MaxCodeBytes
        /\ contractInfo[r].bytecodeSize = MaxCodeBytes
        /\ contractInfo[r].isERC721
        /\ Contains(output[r], << "Bytecode Size:" >> \o ToDigits(MaxCodeBytes) \o << "bytes" >>)


\* The token call got two valid addresses and balanceOf resolved: the token
\* is taken for an ERC-20.
TokenMatched ==
    /\ tokenBalance.pc = "done"
    /\ isAddress(tokenBalance.address) /\ isAddress(tokenBalance.tokenAddress)
    /\ tokenBalance.answers["balanceOf"].ok

\* C18: once a candidate is satisfied, the failure of a metadata function
\* does not fail it and the field takes its default.  In get-contract-source
\* the NFT matched by supportsInterface keeps its match and gets the name
\* "Unknown" and the symbol "UNKNOWN" for the calls that rejected (the
\* fungible candidate is satisfied only when all its calls resolved, so it
\* has nothing to default); in get-erc20-balance a token whose balanceOf
\* resolved is reported with "Unknown", "UNKNOWN" and 18 decimals for the
\* calls that rejected.
C18_MetadataDefaults ==
    /\ \A r \in Requests :
          /\ (Done(r) /\ DeclaresERC721 /\ Issued(r, "supportsInterface")
                /\ world["getBalance"].ok) =>
                /\ contractInfo[r].isERC721
                /\ contractInfo[r].tokenInfo =
                      [name |-> IF world["name721"].ok
                                THEN world["name721"].val ELSE "Unknown",
                       symbol |-> IF world["symbol721"].ok
                                  THEN world["symbol721"].val ELSE "UNKNOWN"]
                /\ Contains(output[r],
                      << "ERC-721 NFT Detected:",
                         "- Name:", contractInfo[r].tokenInfo.name,
                         "- Symbol:", contractInfo[r].tokenInfo.symbol >>)
          /\ contractInfo[r].isERC20 => AllFourResolved
    /\ TokenMatched =>
          LET a == tokenBalance.answers
              name == IF a["name"].ok THEN a["name"].val ELSE "Unknown"
              symbol == IF a["symbol"].ok THEN a["symbol"].val ELSE "UNKNOWN"
              decimals == IF a["decimals"].ok THEN a["decimals"].val ELSE 18
          IN  tokenBalance.output =
                  << "Token:", name, "(", symbol, ")", "Balance:" >>
                  \o formatUnits(a["balanceOf"].val, decimals)
                  \o << symbol, "Token Address:", tokenBalance.tokenAddress.text >>

\* name, symbol and decimals all reject on a token of which the wallet holds
\* 15 * 10^17 units: the balance is shown with 18 decimals, "1.5 UNKNOWN".
C18_Witness ==
    /\ TokenMatched
    /\ \A f \in {"name", "symbol", "decimals"} : ~tokenBalance.answers[f].ok
    /\ tokenBalance.answers["balanceOf"].val = <<"1", "5">> \o Zeros(17)
    /\ Contains(tokenBalance.output,
                << "Token:", "Unknown", "(", "UNKNOWN", ")",
                   "Balance:", "1", ".", "5", "UNKNOWN" >>)


\* contractInfo when the handler of an analysis running alone reaches the
\* response, for a contract whose balance was read.
SoloContractInfo ==
    LET bytecode == world["getBytecode"].val
        read == [InitialContractInfo EXCEPT
                   !.exists = TRUE, !.isContract = TRUE,
                   !.bytecodeSize = BytecodeSize(bytecode),
                   !.balance = formatEther(world["getBalance"].val)]
        probed == ProbeERC20(read)
    IN  IF ~ChecksERC721(probed) THEN probed
        ELSE IF world["supportsInterface"].ok /\ world["supportsInterface"].val
        THEN [probed EXCEPT
                !.isERC721 = TRUE,
                !.tokenInfo = [name |-> OrDefault(world["name721"], "Unknown"),
                               symbol |-> OrDefault(world["symbol721"], "UNKNOWN")]]
        ELSE probed

\* The text an analysis of the address returns when it runs alone, from
\* line 528 to the return, against the answers of the world.
SoloReport(address) ==
    IF ~isAddress(address) THEN FailureText("Invalid contract address format")
    ELSE IF ~world["getBytecode"].ok THEN FailureText("getBytecode failed")
    ELSE IF ~world["getBalance"].ok THEN FailureText("getBalance failed")
    ELSE IF ~IsContractCode(world["getBytecode"].val)
    THEN BuildResponse(address,
                       [InitialContractInfo EXCEPT
                          !.balance = formatEther(world["getBalance"].val)],
                       SourceAfter(world["fetch"]))
    ELSE BuildResponse(address, SoloContractInfo, SourceAfter(world["fetch"]))

\* C21: analyses share no mutable state.  However the steps of two
\* concurrent analyses interleave, each one returns exactly the text it
\* returns when it runs alone against the same collaborator answers, and
\* its locals hold what they hold in a run alone.
C21_ReportAsIfAlone ==
    \A r \in Requests :
        /\ Done(r) => output[r] = SoloReport(contractAddress[r])
        /\ (Done(r) /\ IsReport(output[r]) /\ ResolvedCode(r)) =>
              /\ contractInfo[r] = SoloContractInfo
              /\ sourceCodeData[r] = SourceAfter(world["fetch"])

\* Two analyses of different valid addresses have both returned the report
\* of an NFT with a verified source, each with its own address.
C21_Witness ==
    /\ Done(1) /\ Done(2)
    /\ isAddress(contractAddress[1]) /\ isAddress(contractAddress[2])
    /\ contractAddress[1] # contractAddress[2]
    /\ IsReport(output[1]) /\ IsReport(output[2])
    /\ output[1] # output[2]
    /\ output[1][2] = contractAddress[1].text /\ output[2][2] = contractAddress[2].text
    /\ Shows(output[1], "ERC-721 NFT Detected:")
    /\ Shows(output[2], "Verified Source Code Available:")


\* C22: the fungible classification is all-or-nothing.  When one of name,
\* symbol, decimals and totalSupply failed, the address is not classified as
\* ERC-20 and nothing the other calls returned is kept: tokenInfo stays null
\* unless supportsInterface then answers true, and then it holds only the
\* name and the symbol of the second pair of calls; the report has no ERC-20
\* section, no decimals and no total supply.
C22_FungibleAllOrNothing ==
    \A r \in Requests :
        (ProbedERC20(r) /\ ~AllFourResolved) =>
            /\ ~contractInfo[r].isERC20
            /\ contractInfo[r].tokenInfo # Null =>
                  /\ contractInfo[r].isERC721 /\ DeclaresERC721 /\ Done(r)
                  /\ contractInfo[r].tokenInfo =
                        [name |-> IF world["name721"].ok
                                  THEN world["name721"].val ELSE "Unknown",
                         symbol |-> IF world["symbol721"].ok
                                    THEN world["symbol721"].val ELSE "UNKNOWN"]
            /\ (Done(r) /\ ~DeclaresERC721) => contractInfo[r].tokenInfo = Null
            /\ (Done(r) /\ IsReport(output[r])) =>
                  /\ ~Shows(output[r], "ERC-20 Token Detected:")
                  /\ ~Shows(output[r], "- Decimals:")
                  /\ ~Shows(output[r], "- Total Supply:")
                  /\ ~DeclaresERC721 =>
                        /\ Shows(output[r], "Smart Contract (Unknown Type)")
                        /\ ~Shows(output[r], "Token") /\ ~Shows(output[r], "TKN")

\* name, symbol and decimals resolved and totalSupply reverted, on a contract
\* that answers false to supportsInterface: nothing of the three is kept.
C22_Witness ==
    \E r \in Requests :
        /\ Done(r) /\ IsReport(output[r]) /\ ProbedERC20(r)
        /\ world["name"] = Resolved("Token") /\ world["symbol"] = Resolved("TKN")
        /\ world["decimals"] = Resolved(6) /\ ~world["totalSupply"].ok
        /\ world["supportsInterface"] = Resolved(FALSE)
        /\ contractInfo[r].tokenInfo = Null /\ ~contractInfo[r].isERC20
        /\ Shows(output[r], "Smart Contract (Unknown Type)")


IsTokenFailure(text) == text # <<>> /\ text[1] = "Failed to retrieve token balance: "

IsTokenReport(text) == text # <<>> /\ text[1] = "Token:"

\* C23: in get-erc20-balance, when the wallet address or the token address
\* is invalid no contract call is issued and the text returned is the
\* failure text; otherwise the call returns a balance exactly when balanceOf
\* succeeded, the failure text when it did not, and a failure of name,
\* symbol or decimals changes neither: the field reads "Unknown", "UNKNOWN"
\* or is formatted with 18 decimals.
C23_TokenBalance ==
    LET a == tokenBalance.answers
    IN  tokenBalance.pc # "unused" =>
          IF ~isAddress(tokenBalance.address) \/ ~isAddress(tokenBalance.tokenAddress)
          THEN /\ tokenBalance.pc \in {"start", "done"}
               /\ \A f \in TokenFunctions : a[f] = Unasked
               /\ tokenBalance.pc = "done" =>
                     tokenBalance.output = TokenFailureText("Invalid address format")
          ELSE /\ tokenBalance.pc # "start" => \A f \in TokenFunctions : a[f].asked
               /\ tokenBalance.pc = "done" =>
                    /\ IsTokenReport(tokenBalance.output) <=> a["balanceOf"].ok
                    /\ IsTokenFailure(tokenBalance.output) <=> ~a["balanceOf"].ok
                    /\ a["balanceOf"].ok =>
                         /\ tokenBalance.output[2] =
                               (IF a["name"].ok THEN a["name"].val ELSE "Unknown")
                         /\ tokenBalance.output[4] =
                               (IF a["symbol"].ok THEN a["symbol"].val ELSE "UNKNOWN")
                         /\ Contains(tokenBalance.output,
                               << "Balance:" >>
                               \o formatUnits(a["balanceOf"].val,
                                      IF a["decimals"].ok THEN a["decimals"].val ELSE 18)
                               \o << tokenBalance.output[4], "Token Address:" >>)

\* A valid wallet address with a token address whose checksum is wrong: the
\* failure text, and no call was made.
C23_Witness ==
    /\ tokenBalance.pc = "done"
    /\ isAddress(tokenBalance.address)
    /\ tokenBalance.tokenAddress.text = "0xABc_badsum"
    /\ IsTokenFailure(tokenBalance.output)
    /\ \A f \in TokenFunctions : ~tokenBalance.answers[f].asked


\* Every call the server was given has returned.
AllCallsDone ==
    /\ \A r \in Requests : pc[r] \in {"unused", "done"}
    /\ tokenBalance.pc \in {"unused", "done"}
    /\ toolCall.pc \in {"unused", "done"}

\* The catch texts of the handlers that begin with the word Failed.
FailedTexts ==
    {"Failed to retrieve balance: ", "Failed to retrieve token balance: ",
     "Failed to retrieve transaction: ", "Failed to retrieve receipt: ",
     "Failed to retrieve block: ", "Failed to decode calldata: ",
     "Failed to analyze contract: ", "Failed to read contract: ",
     "Failed to estimate gas: ", "Failed to get constants: ",
     "Failed to access docs: ", "Failed to read docs section: "}

\* A handler that has returned handed the dispatch layer exactly one text
\* item and raised nothing, and after an error thrown inside it the text is
\* the one of its own catch block.
CompletedCallReturnsText ==
    /\ toolCall.pc = "done" =>
          /\ ~toolCall.raised
          /\ Len(toolCall.response.content) = 1
          /\ toolCall.response.content[1].type = "text"
          /\ toolCall.response.content[1].text # <<>>
          /\ toolCall.threw <=>
                toolCall.response.content[1].text[1] = Handler(toolCall.tool).failure
    /\ \A r \in Requests : Done(r) => (IsReport(output[r]) \/ IsFailure(output[r]))
    /\ tokenBalance.pc = "done" =>
          (IsTokenReport(tokenBalance.output) \/ IsTokenFailure(tokenBalance.output))

\* C24: every tool handler always completes (a call that has not returned
\* can take a step), it completes by returning exactly one text item and
\* never raises to the dispatch layer, and an error thrown inside it comes
\* back as a text that begins with "Failed".
C24_AlwaysOneFailedText ==
    /\ AllCallsDone \/ ENABLED NextServer
    /\ CompletedCallReturnsText
    /\ (toolCall.pc = "done" /\ toolCall.threw) =>
          toolCall.response.content[1].text[1] \in FailedTexts

====
